---------------------------- MODULE Spec2Model ----------------------------
(***************************************************************************)
(* Verification model of the string_comparison repository.                 *)
(*                                                                         *)
(*   src/app.py    StringComparisonApp, ComparisonWorker, DiffHighlighter  *)
(*   src/app_2.py  TextComparisonApp                                       *)
(*                                                                         *)
(* Five state machines share this module:                                  *)
(*   SpecDiff  the alignment functions both programs call                  *)
(*             (difflib.SequenceMatcher), applied to every pair of texts   *)
(*             up to MaxLen characters;                                    *)
(*   SpecApp   StringComparisonApp: editors, the single-shot update timer, *)
(*             the cooldown, the ComparisonWorker threads and the queue of *)
(*             their signals to the GUI thread;                            *)
(*   SpecTC    TextComparisonApp: editors, the update timer, the settings; *)
(*   SpecRun   one run of a ComparisonWorker on long texts: more           *)
(*             differences than max_display_diffs, affected texts longer   *)
(*             than the previews;                                          *)
(*   SpecLarge SpecApp with editors that hold more than max_text_length    *)
(*             characters.                                                 *)
(* Spec is the union of SpecApp and SpecTC (one of the two programs runs). *)
(*                                                                         *)
(* Texts are sequences of one-character strings (in SpecLarge: of stretches *)
(* of equal characters, see CharsPerElement).  Positions are 0-based,      *)
(* as in the Python source: s[lo:hi] is Slice(s, lo, hi).                  *)
(***************************************************************************)
EXTENDS Integers, Sequences, FiniteSets, TLC

VARIABLES
    \* ---- which machine runs
    app,                  \* "diff", "app", "large", "run" (src/app.py) or
                          \* "app_2" (src/app_2.py)
    \* ---- SpecDiff
    a, b,                 \* the two sequences handed to SequenceMatcher
    opcodes,              \* the list get_opcodes returned
    dpc,                  \* "init", "worker" or "display": who asked for it
    formats,              \* <<left, right>>: the characters the two
                          \* DiffHighlighters have formatted, with the format
    \* ---- StringComparisonApp (src/app.py)
    text1, text2,         \* contents of the two editors
    update_timer,         \* [active, left, interval]: the single-shot QTimer
    update_pending,
    is_processing,
    elapsed,              \* current time - last_comparison_time, in ms,
                          \* counted up to comparison_cooldown
    comparison_worker,    \* id of the current ComparisonWorker, 0 for None
    workers,              \* id -> ComparisonWorker object and its thread
    events,               \* queued worker signals awaiting the GUI thread
    status_label,         \* what the status area shows
    diff_view,            \* what the detailed diff view shows
    hist,                 \* observations of the run for the properties
    \* ---- TextComparisonApp (src/app_2.py)
    original_text, comparison_text,
    tc_timer,             \* [active, left, interval]: its single-shot QTimer
    case_sensitive, ignore_whitespace,
    tc_view,              \* similarity and the two difference panes
    tc_hist               \* observations of the run for the properties

diffVars  == <<a, b, opcodes, dpc, formats>>
appVars   == <<text1, text2, update_timer, update_pending, is_processing,
               elapsed, comparison_worker, workers, events,
               status_label, diff_view, hist>>
tcVars    == <<original_text, comparison_text, tc_timer, case_sensitive,
               ignore_whitespace, tc_view, tc_hist>>
vars      == <<app, diffVars, appVars, tcVars>>

---------------------------------------------------------------------------
(* Bounds of the model *)

\* longest text handed to the alignment functions in SpecDiff
MaxLen == 3
\* longest text typed into an editor in SpecApp and SpecTC
MaxEditLen == 1
\* number of edit notifications in one behaviour
MaxEdits == 3
\* most differences between the two texts of a run in SpecRun
MaxDiffs == 101
\* ticks per debounce delay of StringComparisonApp: the clock's resolution
TicksPerDelay == 2

---------------------------------------------------------------------------
(* Sequences as Python strings *)

Min(x, y) == IF x <= y THEN x ELSE y
Max(x, y) == IF x >= y THEN x ELSE y

\* s[lo:hi] for 0 <= lo, hi
Slice(s, lo, hi) == SubSeq(s, lo + 1, Min(hi, Len(s)))

\* s[i], 0-based
At(s, i) == s[i + 1]

RECURSIVE Strings(_, _)
Strings(alphabet, n) ==
    IF n = 0 THEN { <<>> }
    ELSE LET shorter == Strings(alphabet, n - 1)
         IN  shorter \cup { Append(s, c) : s \in shorter, c \in alphabet }

\* the sum and the concatenation of the elements of a sequence, by halves
RECURSIVE SumSeq(_)
SumSeq(s) ==
    IF Len(s) = 0 THEN 0
    ELSE IF Len(s) = 1 THEN s[1]
    ELSE LET h == Len(s) \div 2
         IN  SumSeq(SubSeq(s, 1, h)) + SumSeq(SubSeq(s, h + 1, Len(s)))

RECURSIVE Flatten(_)
Flatten(ss) ==
    IF Len(ss) = 0 THEN <<>>
    ELSE IF Len(ss) = 1 THEN ss[1]
    ELSE LET h == Len(ss) \div 2
         IN  Flatten(SubSeq(ss, 1, h)) \o Flatten(SubSeq(ss, h + 1, Len(ss)))

\* the elements of a set of numbers in increasing order
Sorted(S) ==
    LET rank == [m \in S |-> Cardinality({ q \in S : q <= m })]
    IN  [r \in 1 .. Cardinality(S) |-> CHOOSE m \in S : rank[m] = r]

---------------------------------------------------------------------------
(* difflib.SequenceMatcher, as both programs use it: isjunk=None, and      *)
(* texts shorter than the 200 elements at which autojunk starts to act,    *)
(* so every element of b is a match anchor (b2j holds every index).        *)

\* j2len[j] after row i of find_longest_match: the length of the common run
\* of a[alo:ahi] and b[blo:bhi] that ends at a[i], b[j]
RECURSIVE RunLen(_, _, _, _, _, _)
RunLen(sa, sb, alo, blo, i, j) ==
    IF i < alo \/ j < blo THEN 0
    ELSE IF At(sa, i) # At(sb, j) THEN 0
    ELSE RunLen(sa, sb, alo, blo, i - 1, j - 1) + 1

\* the runs <<i, j, k>> of find_longest_match: the common run of a[alo:ahi] and
\* b[blo:bhi] that ends at a[i], b[j] has k elements
CommonRuns(sa, sb, alo, ahi, blo, bhi) ==
    { <<e[1], e[2], RunLen(sa, sb, alo, blo, e[1], e[2])>> :
        e \in (alo .. ahi - 1) \X (blo .. bhi - 1) }

\* the largest and the smallest of a set of numbers
Largest(S)  == CHOOSE m \in S : \A n \in S : n <= m
Smallest(S) == CHOOSE m \in S : \A n \in S : m <= n

\* the runs with the most elements; of these the ones that end first in a; of
\* these the one that ends first in b
Longest(runs) ==
    LET size == Largest({ q[3] : q \in runs })
    IN  { r \in runs : r[3] = size }
FirstInA(runs) ==
    LET row == Smallest({ q[1] : q \in runs })
    IN  { r \in runs : r[1] = row }
FirstInB(runs) ==
    LET col == Smallest({ q[2] : q \in runs })
    IN  CHOOSE r \in runs : r[2] = col

\* <<besti, bestj, bestsize>> of the run kept
BestOf(run, alo, blo) ==
    IF run[3] = 0 THEN <<alo, blo, 0>>
    ELSE <<run[1] - run[3] + 1, run[2] - run[3] + 1, run[3]>>

\* SequenceMatcher.find_longest_match(alo, ahi, blo, bhi): <<besti, bestj, bestsize>>.
\* The rows i and columns j are visited in increasing order and a run replaces
\* the best one only when strictly longer, so the first longest run wins.
find_longest_match(sa, sb, alo, ahi, blo, bhi) ==
    IF alo >= ahi \/ blo >= bhi THEN <<alo, blo, 0>>
    ELSE BestOf(FirstInB(FirstInA(Longest(CommonRuns(sa, sb, alo, ahi, blo, bhi)))),
                alo, blo)

\* The recursion of get_matching_blocks over the queue of sub-ranges, with the
\* blocks already in the order matching_blocks.sort() gives them.
RECURSIVE MatchingBlocksIn(_, _, _, _, _, _)
MatchingBlocksIn(sa, sb, alo, ahi, blo, bhi) ==
    LET x == find_longest_match(sa, sb, alo, ahi, blo, bhi)
        i == x[1]
        j == x[2]
        k == x[3]
    IN  IF k = 0 THEN <<>>
        ELSE (IF alo < i /\ blo < j
                THEN MatchingBlocksIn(sa, sb, alo, i, blo, j) ELSE <<>>)
             \o << x >>
             \o (IF i + k < ahi /\ j + k < bhi
                   THEN MatchingBlocksIn(sa, sb, i + k, ahi, j + k, bhi) ELSE <<>>)

\* The loop of get_matching_blocks that collapses adjacent equal blocks: a
\* block that starts where the one before it ends, in a and in b, is joined to
\* it (the blocks of MatchingBlocksIn are never empty).
NonAdjacent(blocks) ==
    LET n        == Len(blocks)
        joins(m) == /\ m > 1
                    /\ blocks[m - 1][1] + blocks[m - 1][3] = blocks[m][1]
                    /\ blocks[m - 1][2] + blocks[m - 1][3] = blocks[m][2]
        firsts   == Sorted({ m \in 1 .. n : ~joins(m) })
        last(r)  == IF r = Len(firsts) THEN n ELSE firsts[r + 1] - 1
    IN  [r \in 1 .. Len(firsts) |->
           <<blocks[firsts[r]][1], blocks[firsts[r]][2],
             blocks[last(r)][1] + blocks[last(r)][3] - blocks[firsts[r]][1]>>]

\* SequenceMatcher.get_matching_blocks(): ends with the dummy <<la, lb, 0>>
get_matching_blocks(sa, sb) ==
    Append(NonAdjacent(MatchingBlocksIn(sa, sb, 0, Len(sa), 0, Len(sb))),
           <<Len(sa), Len(sb), 0>>)

\* The loop of get_opcodes over the blocks: block n is reached at position
\* <<i, j>>, the end of block n - 1
OpcodesFrom(blocks) ==
    LET i(n)   == IF n = 1 THEN 0 ELSE blocks[n - 1][1] + blocks[n - 1][3]
        j(n)   == IF n = 1 THEN 0 ELSE blocks[n - 1][2] + blocks[n - 1][3]
        tag(n) == IF i(n) < blocks[n][1] /\ j(n) < blocks[n][2] THEN "replace"
                  ELSE IF i(n) < blocks[n][1] THEN "delete"
                  ELSE IF j(n) < blocks[n][2] THEN "insert"
                  ELSE ""
        of(n)  == (IF tag(n) # ""
                     THEN << <<tag(n), i(n), blocks[n][1], j(n), blocks[n][2]>> >>
                     ELSE <<>>)
                  \o (IF blocks[n][3] > 0
                        THEN << <<"equal", blocks[n][1], blocks[n][1] + blocks[n][3],
                                  blocks[n][2], blocks[n][2] + blocks[n][3]>> >>
                        ELSE <<>>)
    IN  Flatten([n \in 1 .. Len(blocks) |-> of(n)])

\* A get_opcodes that loses the 'equal' tuples
get_opcodes_unequal(sa, sb) ==
    SelectSeq(OpcodesFrom(get_matching_blocks(sa, sb)),
              LAMBDA op : op[1] # "equal")

\* SequenceMatcher.get_opcodes(): tuples <<tag, i1, i2, j1, j2>>
get_opcodes(sa, sb) == OpcodesFrom(get_matching_blocks(sa, sb))

\* matches of ratio(): the total size of the matching blocks
Matches(sa, sb) ==
    LET blocks == get_matching_blocks(sa, sb)
    IN  SumSeq([n \in 1 .. Len(blocks) |-> blocks[n][3]])

\* A ratio that counts each matched element once, not on both sides
calculate_ratio_once(matches, length) ==
    IF length > 0 THEN <<matches, length>> ELSE <<1, 1>>

\* _calculate_ratio(matches, length) as the fraction <<numerator, denominator>>
calculate_ratio(matches, length) ==
    IF length > 0 THEN <<2 * matches, length>> ELSE <<1, 1>>

\* SequenceMatcher.ratio()
ratio(sa, sb) == calculate_ratio(Matches(sa, sb), Len(sa) + Len(sb))

\* SequenceMatcher.real_quick_ratio()
real_quick_ratio(sa, sb) ==
    calculate_ratio(Min(Len(sa), Len(sb)), Len(sa) + Len(sb))

\* fraction q < 1/100, the similarity floor of ComparisonWorker.run
BelowFloor(q) == 100 * q[1] < q[2]


\* SequenceMatcher.quick_ratio(): matches counted over the multisets of
\* elements, each element of b usable once
quick_ratio(sa, sb) ==
    LET elts     == { sa[n] : n \in 1 .. Len(sa) }
        count(s, c) == Cardinality({ n \in 1 .. Len(s) : s[n] = c })
        RECURSIVE Total(_)
        Total(S) == IF S = {} THEN 0
                    ELSE LET c == CHOOSE x \in S : TRUE
                         IN  Min(count(sa, c), count(sb, c)) + Total(S \ {c})
    IN  calculate_ratio(Total(elts), Len(sa) + Len(sb))

---------------------------------------------------------------------------
(* Program constants *)

\* StringComparisonApp.schedule_update: update_timer.start(750)
debounce_delay == 750
\* StringComparisonApp.comparison_cooldown
comparison_cooldown == 1500
\* StringComparisonApp.max_text_size
max_text_size == 1000000
\* TextComparisonApp.on_text_change: update_timer.start(1000)
tc_delay == 1000
\* ComparisonWorker.max_text_length and the slices of __init__
max_text_length == 5000000
\* ComparisonWorker.max_display_diffs
max_display_diffs == 100
\* ComparisonWorker.batch_size
batch_size == 25
\* run(): the longest deleted or inserted text shown whole (lines 164, 173)
preview_cap == 100
\* run(): the longest side of a replacement shown whole (lines 183, 184)
replace_preview_cap == 50

---------------------------------------------------------------------------
(* Time: the timers count down and the clocks count up, TickMs at a time *)

\* one tick of the model's clock, in milliseconds
TickMs == debounce_delay \div TicksPerDelay

\* a clock c, in ms, one tick later; it stops counting at cap
Clock(c, cap) == Min(c + TickMs, cap)

TimerOff == [active |-> FALSE, left |-> 0, interval |-> 0]
\* QTimer.start(msec): (re)armed to fire msec from now
TimerStart(msec) == [active |-> TRUE, left |-> msec, interval |-> msec]
\* QTimer.stop()
TimerStop(t) == TimerOff
\* the timeout is due: the event loop may run the connected slot
TimerDue(t) == t.active /\ t.left = 0
\* the timer one tick later
TimerTick(t) == IF t.active THEN [t EXCEPT !.left = Max(0, @ - TickMs)] ELSE t

\* A timer that is not single-shot: it stays armed with the same interval
periodic(t) == [t EXCEPT !.left = t.interval]

\* update_timer.setSingleShot(True): the timer a timeout leaves behind
single_shot(t) == TimerOff

Alphabet == {"a", "b"}

\* the texts of the editors of SpecLarge: empty, or MaxLen elements, which is
\* more than max_text_length characters, that differ in the first or in the
\* last element
LargeTexts ==
    {<<>>} \cup { [m \in 1 .. MaxLen |-> IF m = n THEN c ELSE "a"] :
                    n \in {1, MaxLen}, c \in Alphabet }

EditorTexts == IF app = "large" THEN LargeTexts ELSE Strings(Alphabet, MaxEditLen)


---------------------------------------------------------------------------
(* ComparisonWorker (src/app.py)                                           *)
(*                                                                         *)
(* A worker is a record: the two texts captured by __init__, the flags,    *)
(* the locals of run() and pc, the place run() has reached.  run() is cut  *)
(* at every read of _is_running and at every emit, the points where the    *)
(* GUI thread's stop() can fall in between:                                *)
(*   "none"          no such object yet                                    *)
(*   "start"         thread started, about to test _is_running (line 93)   *)
(*   "analyse"       lines 96-121, and 132-143 when the estimate of the    *)
(*                   similarity is not below the floor                     *)
(*   "ratio"         lines 122-130: matcher.ratio()                        *)
(*   "loop"          line 146, at opcode k                                 *)
(*   "progress"      line 202                                              *)
(*   "emit_progress" line 203                                              *)
(*   "flush"         lines 206-207                                         *)
(*   "summary"       lines 210-241                                         *)
(*   "final"         line 243                                              *)
(*   "emit_finished" line 244                                              *)
(*   "done"          run() returned                                        *)
(*   "terminated"    the thread was killed by QThread.terminate()          *)

Whitespace == {" ", "\n", "\t", "\r"}

\* str.split(): the maximal runs of non-whitespace characters
split(s) ==
    LET word(n)  == s[n] \notin Whitespace
        firsts   == Sorted({ n \in 1 .. Len(s) : word(n) /\ (n = 1 \/ ~word(n - 1)) })
        lasts    == Sorted({ n \in 1 .. Len(s) : word(n) /\ (n = Len(s) \/ ~word(n + 1)) })
    IN  [r \in 1 .. Len(firsts) |-> SubSeq(s, firsts[r], lasts[r])]

WordSet(s) ==
    LET words == split(s)
    IN  { words[n] : n \in 1 .. Len(words) }

\* ComparisonWorker.safe_text_slice
safe_text_slice(text, start, end) ==
    IF text = <<>> \/ start >= Len(text) THEN <<>>
    ELSE Slice(text, Max(0, start), Min(Len(text), end))

\* A preview that shows the affected text whole, whatever its length
Preview_whole(text, cap) == text

\* the preview of an entry: text longer than cap is cut to cap-3 characters
\* followed by "..."
Preview(text, cap) ==
    IF Len(text) > cap THEN Slice(text, 0, cap - 3) \o <<".", ".", ".">> ELSE text

\* The number of characters one element of a text stands for: one, except in
\* SpecLarge, where an element is a stretch of max_text_length / 2 equal
\* characters, so that the editors can hold texts longer than the limits of the
\* program. There the lengths the program compares with max_text_length and
\* max_text_size are exact; the previews and contexts of the entries are
\* counted in elements.
CharsPerElement == IF app = "large" THEN max_text_length \div 2 ELSE 1

\* len(text)
len(text) == Len(text) * CharsPerElement

\* text[:n]: the elements that hold the first n characters of text
Prefix(text, n) == Slice(text, 0, (n + CharsPerElement - 1) \div CharsPerElement)

\* ComparisonWorker.__init__(text1, text2): str(text)[:5000000] if text else ""
NewWorker(t1, t2) ==
    [ text1          |-> Prefix(t1, max_text_length),
      text2          |-> Prefix(t2, max_text_length),
      is_running     |-> TRUE,
      error_occurred |-> FALSE,
      kill           |-> FALSE,
      pc             |-> "start",
      opcodes        |-> <<>>,
      k              |-> 0,
      diff_count     |-> 0,
      total_diffs    |-> 0,
      diff_content   |-> <<>>,
      batch_content  |-> <<>> ]

NoWorker == [NewWorker(<<>>, <<>>) EXCEPT !.pc = "none"]

\* QThread.isRunning()
isRunning(w) == w.pc \notin {"none", "done", "terminated"}

\* the entry appended to batch_content for a non-equal opcode (lines 157-190)
Entry(w, op) ==
    LET tag    == op[1]
        i1     == op[2]
        i2     == op[3]
        j1     == op[4]
        j2     == op[5]
        before == safe_text_slice(w.text1, Max(0, i1 - 30), i1)
        after  == safe_text_slice(w.text1, i2, Min(Len(w.text1), i2 + 30))
    IN  IF tag = "delete"
          THEN <<"Missing in second text",
                 Preview(safe_text_slice(w.text1, i1, i2), preview_cap), before, after>>
        ELSE IF tag = "insert"
          THEN <<"Added in second text",
                 Preview(safe_text_slice(w.text2, j1, j2), preview_cap), before>>
        ELSE <<"Text changed",
               Preview(safe_text_slice(w.text1, i1, i2), replace_preview_cap),
               Preview(safe_text_slice(w.text2, j1, j2), replace_preview_cap), before, after>>

\* A summary that reports the loop's counter as the number of entries shown
Summary_uncapped(w) ==
    << <<"">>,
       <<"=== Detailed Summary ===">>,
       <<"Total differences found", w.total_diffs>>,
       <<"Differences shown", w.diff_count>> >>

\* the summary lines appended at lines 229-239
Summary(w) ==
    LET n1 == Len(w.text1)
        n2 == Len(w.text2)
    IN  << <<"">>,
           <<"=== Detailed Summary ===">>,
           <<"Total differences found", w.total_diffs>>,
           <<"Differences shown", Min(w.diff_count, max_display_diffs)>>,
           <<"Character difference", IF n1 >= n2 THEN n1 - n2 ELSE n2 - n1,
             IF n2 > n1 THEN "more" ELSE "fewer">>,
           <<"Overall similarity", ratio(w.text1, w.text2)>>,
           <<"Unique words in first text",
             Cardinality(WordSet(w.text1) \ WordSet(w.text2))>>,
           <<"Unique words in second text",
             Cardinality(WordSet(w.text2) \ WordSet(w.text1))>> >>

\* where run() goes after the body of the loop for opcode k
NextOpcode(w) ==
    IF w.k < Len(w.opcodes)
      THEN [w EXCEPT !.pc = "loop", !.k = w.k + 1]
      ELSE [w EXCEPT !.pc = "flush"]

Silent(w) == [w |-> w, out |-> <<>>]
Emit(w, signal) == [w |-> w, out |-> << signal >>]

\* An analysis that reads the editors instead of the texts captured by __init__
Analyse_live(w) ==
    LET ops == get_opcodes(text1, text2)
    IN  Silent([w EXCEPT !.pc = IF ops = <<>> THEN "flush" ELSE "loop",
                         !.text1 = text1, !.text2 = text2,
                         !.opcodes = ops, !.k = 1,
                         !.total_diffs =
                             Cardinality({ n \in 1 .. Len(ops) : ops[n][1] # "equal" })])

\* lines 132-143: the opcodes, their count and the header of a long log
Align(w) ==
    LET ops   == get_opcodes(w.text1, w.text2)
        total == Cardinality({ n \in 1 .. Len(ops) : ops[n][1] # "equal" })
    IN  Silent([w EXCEPT
          !.pc = IF ops = <<>> THEN "flush" ELSE "loop",
          !.opcodes = ops, !.k = 1, !.total_diffs = total,
          !.diff_content =
              IF total > max_display_diffs
                THEN << <<"Found differences, showing first", total, max_display_diffs>>,
                        <<"==================================================">> >>
                ELSE <<>> ])

\* lines 96-143. At "analyse": the validation and the estimate of the
\* similarity (96-121); at "ratio": matcher.ratio() on texts whose estimate is
\* below the floor (122-130); then the opcodes
Analyse(w) ==
    IF w.pc = "analyse" /\ w.text1 = <<>> /\ w.text2 = <<>>
      THEN Emit([w EXCEPT !.pc = "done"], <<"error", "No text to compare">>)
    ELSE IF w.pc = "analyse" /\ BelowFloor(real_quick_ratio(w.text1, w.text2))
      THEN Silent([w EXCEPT !.pc = "ratio"])
    ELSE IF w.pc = "ratio" /\ BelowFloor(ratio(w.text1, w.text2))
      THEN Emit([w EXCEPT !.pc = "done"],
                <<"error", "Texts are too different for detailed comparison">>)
    ELSE Align(w)

\* lines 145-199: one pass of the loop, for opcode k
LoopBody(w) ==
    LET op    == w.opcodes[w.k]
        count == w.diff_count + 1
        batch == Append(w.batch_content, Entry(w, op))
    IN  IF ~w.is_running THEN [w EXCEPT !.pc = "done"]
        ELSE IF op[1] = "equal" THEN [w EXCEPT !.pc = "progress"]
        ELSE IF count > max_display_diffs
          THEN [w EXCEPT
                 !.pc = "flush", !.diff_count = count,
                 !.diff_content =
                     IF w.total_diffs - max_display_diffs > 0
                       THEN Append(@, <<"more differences not shown",
                                        w.total_diffs - max_display_diffs>>)
                       ELSE @ ]
        ELSE IF Len(batch) >= batch_size
          THEN [w EXCEPT !.pc = "progress", !.diff_count = count,
                         !.diff_content = @ \o batch, !.batch_content = <<>>]
          ELSE [w EXCEPT !.pc = "progress", !.diff_count = count,
                         !.batch_content = batch]

\* A last check that does not look at the cancellation flag
may_finish_unflagged(w) == ~w.error_occurred

\* line 243: the check before finished is emitted
may_finish(w) == w.is_running /\ ~w.error_occurred

\* ComparisonWorker.run(), one step of its thread
Step(w) ==
    CASE w.pc = "start" ->
           Silent(IF w.is_running THEN [w EXCEPT !.pc = "analyse"]
                                  ELSE [w EXCEPT !.pc = "done"])
      [] w.pc \in {"analyse", "ratio"} -> Analyse(w)
      [] w.pc = "loop" -> Silent(LoopBody(w))
      [] w.pc = "progress" ->
           Silent(IF w.diff_count % 50 = 0 /\ w.is_running
                    THEN [w EXCEPT !.pc = "emit_progress"]
                    ELSE NextOpcode(w))
      [] w.pc = "emit_progress" -> Emit(NextOpcode(w), <<"progress", w.diff_count>>)
      [] w.pc = "flush" ->
           Silent(IF w.batch_content # <<>> /\ w.is_running
                    THEN [w EXCEPT !.pc = "summary",
                                   !.diff_content = @ \o w.batch_content]
                    ELSE [w EXCEPT !.pc = "summary"])
      [] w.pc = "summary" ->
           Silent(IF w.total_diffs > 0 /\ w.is_running
                    THEN [w EXCEPT !.pc = "final",
                                   !.diff_content = @ \o Summary(w)]
                    ELSE [w EXCEPT !.pc = "final"])
      [] w.pc = "final" ->
           Silent(IF may_finish(w)
                    THEN [w EXCEPT !.pc = "emit_finished"]
                    ELSE [w EXCEPT !.pc = "done"])
      [] w.pc = "emit_finished" ->
           Emit([w EXCEPT !.pc = "done"], <<"finished", w.diff_content, w.total_diffs>>)
      [] OTHER -> Silent(w)

\* ComparisonWorker.stop()
stop(w) == [w EXCEPT !.is_running = FALSE]

\* QThread.terminate(): asks the system to kill the thread, which "may or may
\* not be terminated immediately"; the wait() that follows makes sure of it
terminate(w) == [w EXCEPT !.kill = TRUE]

\* A handler that emits error and lets run() go on to its last check
Fault_resumed(w) ==
    Emit([w EXCEPT !.pc = "final"], <<"error", "Comparison error">>)

\* An exception raised by the matcher (lines 107-130), a MemoryError for one:
\* the handlers of lines 246-251 set _error_occurred and emit error
Fault(w) ==
    Emit([w EXCEPT !.pc = "done", !.error_occurred = TRUE],
         <<"error", "Comparison error">>)

\* what one scheduling of the thread of w can do: the next step of run(), which
\* the matcher may end with an exception, or, once terminate() was called, die
\* where it stands
ThreadMoves(w) ==
    { Step(w) } \cup
    (IF w.pc \in {"analyse", "ratio"} THEN { Fault(w) } ELSE {}) \cup
    (IF w.kill THEN { Silent([w EXCEPT !.pc = "terminated"]) } ELSE {})

\* every point the thread of w can reach by itself, with the signals emitted
\* on the way
RECURSIVE Runs(_, _)
Runs(w, out) ==
    IF ~isRunning(w) THEN { [w |-> w, out |-> out] }
    ELSE { [w |-> w, out |-> out] }
         \cup UNION { Runs(m.w, out \o m.out) : m \in ThreadMoves(w) }

\* A wait that returns at once, whatever the thread does
wait_returns_at_once(w, timed) == { Silent(w) }

\* QThread.wait(): blocks the caller until the thread has ended; with a time
\* limit (timed) it may also give up while the thread is still on its way
wait(w, timed) ==
    { r \in Runs(w, <<>>) : timed \/ ~isRunning(r.w) }

\* StringComparisonApp.stop_current_worker on the current worker w: the
\* possible outcomes, each the worker afterwards and the signals its thread
\* emitted meanwhile
stop_current_worker(w) ==
    IF ~isRunning(w) THEN { Silent(w) }
    ELSE UNION {
           IF isRunning(r.w)
             THEN { [w |-> q.w, out |-> r.out \o q.out] :
                      q \in wait(terminate(r.w), FALSE) }
             ELSE { r } :
           r \in wait(stop(w), TRUE) }

\* what is left of a worker object once it is deallocated: how its thread ended
destroyed(w) == [NoWorker EXCEPT !.pc = w.pc, !.is_running = w.is_running]

\* ComparisonWorker.__del__, run when the object loses its last reference
del(w) == { [r EXCEPT !.w = destroyed(r.w)] : r \in wait(stop(w), FALSE) }

---------------------------------------------------------------------------
(* StringComparisonApp (src/app.py)                                        *)

WorkerIds == 1 .. MaxEdits

\* the signals of worker id as they wait in the GUI thread's event queue
\* (texts: the two texts the sender was constructed with, for the properties)
Queued(id, out) ==
    [n \in 1 .. Len(out) |->
       [w |-> id, signal |-> out[n],
        texts |-> <<workers[id].text1, workers[id].text2>>]]

InitHist ==
    [ edits      |-> 0,      \* edit notifications so far
      bursts     |-> 0,      \* edits accepted with no request pending
      burst      |-> 0,      \* edits accepted since the last run start
      runs       |-> 0,      \* run starts: update_comparison past the cooldown check
      sinceEdit  |-> debounce_delay,       \* clock: ms since the last accepted edit
      sinceRun   |-> comparison_cooldown,  \* clock: ms since the last run start
      quietAtRun |-> 0,      \* sinceEdit when the last run started
      gapAtRun   |-> 0,      \* sinceRun when the last run started
      compared   |-> << <<>>, <<>> >>,  \* the texts the last run compared
      snapshot   |-> << <<>>, <<>> >>,  \* the editors' texts at the last dispatch
      rearmed    |-> FALSE,  \* the timer is armed by a deferral of update_comparison
      rearmDelay |-> 0,      \* the delay that deferral armed it with
      rearmAfter |-> 0,      \* ms since the last run start at that deferral
      superseded |-> {},     \* workers that were running when an edit arrived
      cancelled  |-> {},     \* workers stop_current_worker called stop() on
      shown      |-> {},     \* workers whose change log update_diff_view displayed
      afterStop  |-> {},     \* cancelled workers a signal of which reached a slot
      display    |->         \* the last result update_diff_view displayed:
        [ status |-> <<"">>,            \* the status it set,
          count  |-> 0,                 \* the count it was given and
          texts  |-> << <<>>, <<>> >> ], \* the texts the worker had compared
      results    |-> <<>> ]  \* workers in the order their results were delivered

InitAppVars ==
    /\ text1 = <<>>
    /\ text2 = <<>>
    /\ update_timer = TimerOff
    /\ update_pending = FALSE
    /\ is_processing = FALSE
    /\ elapsed = comparison_cooldown
    /\ comparison_worker = 0
    /\ workers = [id \in WorkerIds |-> NoWorker]
    /\ events = <<>>
    /\ status_label = <<"">>
    /\ diff_view = <<>>
    /\ hist = InitHist

\* Handlers that return with the flag they set still set
processing_left_set == TRUE

\* is_processing when a handler that sets it returns: cleared by the finally
\* clauses of update_comparison (458-459) and update_diff_view (591-592), and
\* by handle_comparison_error (498)
processing_at_return == FALSE

\* A schedule_update that also cancels the running worker
schedule_update_cancelling ==
    IF is_processing
      THEN UNCHANGED <<update_timer, update_pending, workers>>
      ELSE /\ update_timer' = (IF update_timer.active THEN update_timer
                               ELSE TimerStart(debounce_delay))
           /\ update_pending' = TRUE
           /\ workers' = [id \in WorkerIds |->
                            IF id = comparison_worker THEN stop(workers[id])
                            ELSE workers[id]]

\* A schedule_update that records the request and leaves the timer alone
schedule_update_unarmed ==
    IF is_processing
      THEN UNCHANGED <<update_timer, update_pending, workers>>
      ELSE /\ update_timer' = update_timer
           /\ update_pending' = TRUE
           /\ workers' = workers

\* StringComparisonApp.schedule_update, the slot of both editors' textChanged
schedule_update ==
    IF is_processing
      THEN UNCHANGED <<update_timer, update_pending, workers>>
      ELSE /\ update_timer' = (IF update_timer.active THEN update_timer
                               ELSE TimerStart(debounce_delay))
           /\ update_pending' = TRUE
           /\ workers' = workers

\* The user changes one editor: it now holds t1 (left), t2 (right)
TextChanged(t1, t2) ==
    /\ app \in {"app", "large"}
    /\ hist.edits < MaxEdits
    /\ (t1 = text1) # (t2 = text2)
    /\ text1' = t1
    /\ text2' = t2
    /\ schedule_update
    /\ hist' = [hist EXCEPT
                  !.edits = @ + 1,
                  !.bursts = IF ~is_processing /\ hist.burst = 0 THEN @ + 1 ELSE @,
                  !.burst = IF ~is_processing THEN @ + 1 ELSE @,
                  !.sinceEdit = IF ~is_processing THEN 0 ELSE @,
                  !.superseded =
                      IF comparison_worker # 0 /\ isRunning(workers[comparison_worker])
                        THEN @ \cup {comparison_worker} ELSE @]
    /\ UNCHANGED <<app, diffVars, tcVars, is_processing, elapsed,
                   comparison_worker, events, status_label, diff_view>>

\* An update_comparison without the cooldown
no_cooldown == FALSE

\* update_comparison, lines 402-403: the last run started less than the
\* cooldown ago
in_cooldown == elapsed < comparison_cooldown

\* A deferral that re-arms for what is left of the cooldown
rearm_remaining == comparison_cooldown - elapsed

\* update_comparison, line 405: the delay the deferral re-arms the timer with
rearm_delay == comparison_cooldown

\* the id the next ComparisonWorker object gets
NewId == Cardinality({ id \in WorkerIds : workers[id].pc # "none" }) + 1

\* update_comparison, lines 429-444, with the editors holding t1, t2: the
\* previous worker is stopped, a new one is created in its place (the previous
\* object loses its last reference) and started
Dispatch(t1, t2) ==
    LET old == comparison_worker
        new == NewId
    IN  /\ comparison_worker' = new
        /\ IF old = 0
             THEN /\ workers' = [workers EXCEPT ![new] = NewWorker(t1, t2)]
                  /\ events' = events
             ELSE \E r \in stop_current_worker(workers[old]) :
                  \E d \in del(r.w) :
                    /\ workers' = [workers EXCEPT ![old] = d.w,
                                                  ![new] = NewWorker(t1, t2)]
                    /\ events' = events \o Queued(old, r.out \o d.out)
        /\ status_label' =
             IF len(t1) < max_text_size /\ len(t2) < max_text_size
               THEN <<"Processing comparison...">>
               ELSE <<"Text too large for real-time highlighting">>
        /\ hist' = [hist EXCEPT
                      !.runs = @ + 1, !.burst = 0, !.rearmed = FALSE,
                      !.rearmDelay = 0, !.rearmAfter = 0,
                      !.quietAtRun = hist.sinceEdit, !.gapAtRun = hist.sinceRun,
                      !.sinceRun = 0,
                      !.compared = <<NewWorker(t1, t2).text1, NewWorker(t1, t2).text2>>,
                      !.snapshot = <<t1, t2>>,
                      !.cancelled = IF old # 0 /\ isRunning(workers[old])
                                      THEN @ \cup {old} ELSE @]
        /\ UNCHANGED diff_view

\* StringComparisonApp.update_comparison, the slot of update_timer.timeout
update_comparison ==
    /\ app \in {"app", "large"}
    /\ TimerDue(update_timer)
    /\ IF ~update_pending \/ is_processing
         THEN /\ update_timer' = single_shot(update_timer)
              /\ UNCHANGED <<update_pending, elapsed, comparison_worker, workers,
                             events, status_label, diff_view, hist, is_processing>>
       ELSE IF in_cooldown
         THEN /\ update_timer' = TimerStart(rearm_delay)
              /\ hist' = [hist EXCEPT !.rearmed = TRUE, !.rearmDelay = rearm_delay,
                                      !.rearmAfter = hist.sinceRun]
              /\ UNCHANGED <<update_pending, elapsed, comparison_worker, workers,
                             events, status_label, diff_view, is_processing>>
       ELSE /\ update_timer' = single_shot(update_timer)
            /\ update_pending' = FALSE
            /\ elapsed' = 0
            /\ is_processing' = processing_at_return
            /\ IF Len(text1) = 0 /\ Len(text2) = 0
                 THEN /\ status_label' = <<"Enter text to compare">>
                      /\ hist' = [hist EXCEPT
                                    !.runs = @ + 1, !.burst = 0, !.rearmed = FALSE,
                                    !.rearmDelay = 0, !.rearmAfter = 0,
                                    !.quietAtRun = hist.sinceEdit,
                                    !.gapAtRun = hist.sinceRun, !.sinceRun = 0,
                                    !.compared = <<text1, text2>>]
                      /\ UNCHANGED <<comparison_worker, workers, events, diff_view>>
                 ELSE Dispatch(text1, text2)
    /\ UNCHANGED <<app, diffVars, tcVars, text1, text2>>

\* The thread of worker id is scheduled
WorkerRuns(id) ==
    /\ app \in {"app", "large", "run"}
    /\ isRunning(workers[id])
    /\ \E m \in ThreadMoves(workers[id]) :
         /\ workers' = [workers EXCEPT ![id] = m.w]
         /\ events' = events \o Queued(id, m.out)
    /\ UNCHANGED <<app, diffVars, tcVars, text1, text2, update_timer,
                   update_pending, is_processing, elapsed,
                   comparison_worker, status_label, diff_view, hist>>

\* StringComparisonApp.calculate_similarity_message
calculate_similarity_message(t1, t2) ==
    IF t1 = <<>> \/ t2 = <<>> THEN <<"One text is empty">>
    ELSE LET q == quick_ratio(Prefix(t1, 10000), Prefix(t2, 10000))
         IN  IF 100 * q[1] > 90 * q[2] THEN <<"Texts are very similar", q>>
             ELSE IF 100 * q[1] > 70 * q[2]
               THEN <<"Texts have significant differences", q>>
             ELSE IF 100 * q[1] > 40 * q[2] THEN <<"Texts are quite different", q>>
             ELSE <<"Texts are very different", q>>

\* the status update_diff_view sets (lines 563-584)
DiffStatus(diff_count, t1, t2) ==
    IF t1 = <<>> /\ t2 = <<>> THEN <<"Enter text to compare">>
    ELSE IF t1 = t2 THEN <<"Texts are identical">>
    ELSE <<"Found differences", diff_count, diff_count > 100,
           calculate_similarity_message(t1, t2)>>

\* worker id, if stop_current_worker has called stop() on it
Cancelled(id) == IF id \in hist.cancelled THEN {id} ELSE {}

\* the GUI thread takes the next queued signal, of the kind given
Takes(kind) ==
    /\ app \in {"app", "large"}
    /\ events # <<>>
    /\ Head(events).signal[1] = kind
    /\ events' = Tail(events)

\* the finished signal reaches its slot: update_diff_view(diff_content,
\* diff_count, self.text1.toPlainText(), self.text2.toPlainText())
update_diff_view ==
    /\ Takes("finished")
    /\ LET e == Head(events)
       IN  IF is_processing
             THEN UNCHANGED <<diff_view, status_label, hist>>
             ELSE /\ diff_view' = e.signal[2]
                  /\ status_label' = DiffStatus(e.signal[3], text1, text2)
                  /\ hist' = [hist EXCEPT !.shown = @ \cup {e.w},
                                          !.afterStop = @ \cup Cancelled(e.w),
                                          !.display =
                                              [ status |-> status_label',
                                                count  |-> e.signal[3],
                                                texts  |-> e.texts ],
                                          !.results = Append(@, e.w)]
    /\ is_processing' = processing_at_return
    /\ UNCHANGED <<app, diffVars, tcVars, text1, text2, update_timer,
                   update_pending, elapsed, comparison_worker, workers>>

\* the error signal reaches its slot
handle_comparison_error ==
    /\ Takes("error")
    /\ is_processing' = processing_at_return
    /\ status_label' = <<"error", Head(events).signal[2]>>
    /\ diff_view' = << <<"An error occurred during comparison.">> >>
    /\ hist' = [hist EXCEPT !.afterStop = @ \cup Cancelled(Head(events).w),
                            !.results = Append(@, Head(events).w)]
    /\ UNCHANGED <<app, diffVars, tcVars, text1, text2, update_timer,
                   update_pending, elapsed, comparison_worker, workers>>

\* the progress signal reaches its slot
update_progress ==
    /\ Takes("progress")
    /\ status_label' = IF Head(events).signal[2] % 100 = 0
                         THEN <<"Processing...", Head(events).signal[2]>>
                         ELSE status_label
    /\ hist' = [hist EXCEPT !.afterStop = @ \cup Cancelled(Head(events).w)]
    /\ UNCHANGED <<app, diffVars, tcVars, text1, text2, update_timer,
                   update_pending, is_processing, elapsed,
                   comparison_worker, workers, diff_view>>

\* A queued signal whose sender object has been destroyed since: the call may
\* be dropped with the connection instead of reaching the slot
SignalDropped ==
    /\ app \in {"app", "large"}
    /\ events # <<>>
    /\ Head(events).w # comparison_worker
    /\ events' = Tail(events)
    /\ UNCHANGED <<app, diffVars, tcVars, text1, text2, update_timer,
                   update_pending, is_processing, elapsed,
                   comparison_worker, workers, status_label, diff_view, hist>>

\* Time passes: one tick
Tick ==
    /\ app \in {"app", "large"}
    /\ update_timer' = TimerTick(update_timer)
    /\ elapsed' = Clock(elapsed, comparison_cooldown)
    /\ hist' = [hist EXCEPT !.sinceEdit = Clock(@, debounce_delay),
                            !.sinceRun = Clock(@, comparison_cooldown)]
    /\ UNCHANGED <<app, diffVars, tcVars, text1, text2, update_pending,
                   is_processing, comparison_worker, workers, events,
                   status_label, diff_view>>

---------------------------------------------------------------------------
(* TextComparisonApp (src/app_2.py)                                        *)

TCAlphabet == {"a", "A", " "}
TCTexts == Strings(TCAlphabet, MaxEditLen)

\* str.lower(), on the letters of the model
lower(s) == [n \in 1 .. Len(s) |-> IF s[n] = "A" THEN "a" ELSE s[n]]

\* ''.join(text.split())
join_split(s) == Flatten(split(s))

\* compare_texts, lines 335-345: the text the matcher is given for text
comp_text(text, cs, iw) ==
    LET cased == IF ~cs THEN lower(text) ELSE text
    IN  IF iw THEN join_split(cased) ELSE cased

\* update_diff_display, lines 386-406: the formats merged into one pane, in
\* the order applied, each <<format, from, to>>; left is the original pane
Spans(ops, left) ==
    LET span(op) ==
          IF op[1] = "equal"
            THEN << <<"match", IF left THEN op[2] ELSE op[4],
                               IF left THEN op[3] ELSE op[5]>> >>
          ELSE IF left /\ op[1] \in {"replace", "delete"}
            THEN << <<"diff", op[2], op[3]>> >>
          ELSE IF ~left /\ op[1] \in {"replace", "insert"}
            THEN << <<"diff", op[4], op[5]>> >>
          ELSE <<>>
    IN  Flatten([n \in 1 .. Len(ops) |-> span(ops[n])])

ClearedView ==
    [ similarity |-> <<0, 1>>, original |-> <<>>, comparison |-> <<>>,
      spans1 |-> <<>>, spans2 |-> <<>> ]

\* TextComparisonApp.compare_texts with update_diff_display: what the
\* similarity label and the two difference panes show afterwards
compare_texts(t1, t2, cs, iw) ==
    IF t1 = <<>> /\ t2 = <<>> THEN ClearedView
    ELSE LET c1  == comp_text(t1, cs, iw)
             c2  == comp_text(t2, cs, iw)
             ops == get_opcodes(c1, c2)
         IN  [ similarity |-> ratio(c1, c2),
               original   |-> t1,
               comparison |-> t2,
               spans1     |-> Spans(ops, TRUE),
               spans2     |-> Spans(ops, FALSE) ]

InitTCHist ==
    [ edits      |-> 0,      \* edit notifications so far
      bursts     |-> 0,      \* edits that arrived with the timer not armed
      burst      |-> 0,      \* edits since the last run started by the timer
      runs       |-> 0,      \* runs of compare_texts started by the timer
      sinceEdit  |-> tc_delay,   \* clock: ms since the last edit
      quietAtRun |-> 0,          \* sinceEdit when that run started
      compared   |-> << <<>>, <<>> >> ]   \* the texts that run read

InitTCVars ==
    /\ original_text = <<>>
    /\ comparison_text = <<>>
    /\ tc_timer = TimerOff
    /\ case_sensitive = TRUE
    /\ ignore_whitespace = FALSE
    /\ tc_view = ClearedView
    /\ tc_hist = InitTCHist

\* TextComparisonApp.on_text_change: update_timer.stop(); update_timer.start(1000)
on_text_change(t) == [TimerStop(t) EXCEPT !.active = TRUE, !.left = tc_delay,
                                         !.interval = tc_delay]

\* The user changes one editor: it now holds t1 (original), t2 (comparison)
TCTextChanged(t1, t2) ==
    /\ app = "app_2"
    /\ tc_hist.edits < MaxEdits
    /\ (t1 = original_text) # (t2 = comparison_text)
    /\ original_text' = t1
    /\ comparison_text' = t2
    /\ tc_timer' = on_text_change(tc_timer)
    /\ tc_hist' = [tc_hist EXCEPT
                     !.edits = @ + 1,
                     !.bursts = IF tc_hist.burst = 0 THEN @ + 1 ELSE @,
                     !.burst = @ + 1,
                     !.sinceEdit = 0]
    /\ UNCHANGED <<app, diffVars, appVars, case_sensitive, ignore_whitespace,
                   tc_view>>

\* update_timer.timeout reaches compare_texts
TCTimeout ==
    /\ app = "app_2"
    /\ TimerDue(tc_timer)
    /\ tc_timer' = single_shot(tc_timer)
    /\ tc_view' = compare_texts(original_text, comparison_text,
                                case_sensitive, ignore_whitespace)
    /\ tc_hist' = [tc_hist EXCEPT !.runs = @ + 1, !.burst = 0,
                                  !.quietAtRun = tc_hist.sinceEdit,
                                  !.compared = <<original_text, comparison_text>>]
    /\ UNCHANGED <<app, diffVars, appVars, original_text, comparison_text,
                   case_sensitive, ignore_whitespace>>

\* TextComparisonApp.toggle_case_sensitivity
toggle_case_sensitivity ==
    /\ app = "app_2"
    /\ case_sensitive' = ~case_sensitive
    /\ tc_view' = compare_texts(original_text, comparison_text,
                                ~case_sensitive, ignore_whitespace)
    /\ UNCHANGED <<app, diffVars, appVars, original_text, comparison_text,
                   tc_timer, ignore_whitespace, tc_hist>>

\* TextComparisonApp.toggle_whitespace_sensitivity
toggle_whitespace_sensitivity ==
    /\ app = "app_2"
    /\ ignore_whitespace' = ~ignore_whitespace
    /\ tc_view' = compare_texts(original_text, comparison_text,
                                case_sensitive, ~ignore_whitespace)
    /\ UNCHANGED <<app, diffVars, appVars, original_text, comparison_text,
                   tc_timer, case_sensitive, tc_hist>>

\* Time passes: one tick
TCTick ==
    /\ app = "app_2"
    /\ tc_timer' = TimerTick(tc_timer)
    /\ tc_hist' = [tc_hist EXCEPT !.sinceEdit = Clock(@, tc_delay)]
    /\ UNCHANGED <<app, diffVars, appVars, original_text, comparison_text,
                   case_sensitive, ignore_whitespace, tc_view>>

---------------------------------------------------------------------------
(* The alignment functions on their own *)

InitDiffVars ==
    /\ a = <<>>
    /\ b = <<>>
    /\ opcodes = <<>>
    /\ dpc = "idle"
    /\ formats = <<{}, {}>>

\* ComparisonWorker.run, line 134: opcodes = list(matcher.get_opcodes())
WorkerOpcodes ==
    /\ app = "diff"
    /\ dpc = "init"
    /\ opcodes' = get_opcodes(a, b)
    /\ dpc' = "worker"
    /\ UNCHANGED <<app, a, b, formats, appVars, tcVars>>

\* update_diff_display, line 386: for ... in matcher.get_opcodes()
DisplayOpcodes ==
    /\ app = "diff"
    /\ dpc = "init"
    /\ opcodes' = get_opcodes(a, b)
    /\ dpc' = "display"
    /\ UNCHANGED <<app, a, b, formats, appVars, tcVars>>

---------------------------------------------------------------------------
(* Specifications *)

\* the two words of the worked example of the ratio
Kitten  == <<"k", "i", "t", "t", "e", "n">>
Sitting == <<"s", "i", "t", "t", "i", "n", "g">>

InitDiff ==
    /\ app = "diff"
    /\ \/ /\ a \in Strings(Alphabet, MaxLen)
          /\ b \in Strings(Alphabet, MaxLen)
       \/ /\ a = Kitten
          /\ b = Sitting
    /\ opcodes = <<>>
    /\ dpc = "init"
    /\ formats = <<{}, {}>>
    /\ InitAppVars
    /\ InitTCVars

InitApp ==
    /\ app = "app"
    /\ InitDiffVars
    /\ InitAppVars
    /\ InitTCVars

InitTC ==
    /\ app = "app_2"
    /\ InitDiffVars
    /\ InitAppVars
    /\ InitTCVars

\* app.py with editors that can hold texts of more than max_text_length
\* characters
InitLarge ==
    /\ app = "large"
    /\ InitDiffVars
    /\ InitAppVars
    /\ InitTCVars

\* the number of binary digits of n
RECURSIVE Digits(_)
Digits(n) == IF n = 0 THEN 0 ELSE 1 + Digits(n \div 2)

\* n + 1 characters x separated by n runs of "a": the longest run, of longest
\* characters, in the middle and the shorter runs on each side of it laid out
\* the same way, so that no two runs of a range are the longest of it
RECURSIVE Separated(_, _, _)
Separated(x, n, longest) ==
    IF n = 0 THEN <<x>>
    ELSE Separated(x, (n - 1) \div 2, longest - 1)
         \o [m \in 1 .. longest |-> "a"]
         \o Separated(x, n \div 2, longest - 1)

\* numbers of non-equal opcodes of the texts of SpecRun
RunSizes == {1, MaxDiffs - 1, MaxDiffs}

\* lengths of the affected texts of SpecRun: around the two caps of the previews
PreviewLens == { cap + d : cap \in {replace_preview_cap, preview_cap}, d \in {-1, 0, 1} }

\* n characters x between two "a"
Between(x, n) == <<"a">> \o [m \in 1 .. n |-> x] \o <<"a">>

\* the pairs of texts of SpecRun: many short differences, or one long one (a
\* deletion, an insertion or a replacement)
RunTexts ==
    { <<Separated("b", t - 1, Digits(t - 1)), Separated("c", t - 1, Digits(t - 1))>> :
        t \in RunSizes }
    \cup { <<Between("b", n), <<"a", "a">> >> : n \in PreviewLens }
    \cup { << <<"a", "a">>, Between("b", n)>> : n \in PreviewLens }
    \cup { <<Between("b", n), Between("c", m)>> : n \in PreviewLens, m \in PreviewLens }

\* One run of a ComparisonWorker followed from its dispatch: the editors hold
\* a pair of RunTexts and update_comparison has just dispatched the first
\* worker on them
InitRun ==
    /\ app = "run"
    /\ InitDiffVars
    /\ InitTCVars
    /\ \E t \in RunTexts :
         /\ text1 = t[1]
         /\ text2 = t[2]
    /\ update_timer = TimerOff
    /\ update_pending = FALSE
    /\ is_processing = FALSE
    /\ elapsed = 0
    /\ comparison_worker = 1
    /\ workers = [id \in WorkerIds |->
                    IF id = 1 THEN NewWorker(text1, text2) ELSE NoWorker]
    /\ events = <<>>
    /\ status_label = <<"Processing comparison...">>
    /\ diff_view = <<>>
    /\ hist = [InitHist EXCEPT !.edits = 1, !.bursts = 1, !.runs = 1,
                               !.sinceEdit = debounce_delay, !.sinceRun = 0,
                               !.quietAtRun = debounce_delay,
                               !.gapAtRun = comparison_cooldown,
                               !.compared = <<text1, text2>>,
                               !.snapshot = <<text1, text2>>]

\* DiffHighlighter.highlightBlock(text) with other_text = other, on an enabled
\* highlighter: the positions of the block given a format, with the format.
\* setFormat(i1, i2 - i1, fmt) with i1, i2 the range in text of every opcode
\* that is not "equal"; for an "insert" that range is empty
highlightBlock(text, other) ==
    IF text = <<>> \/ other = <<>> THEN {}
    ELSE LET ops == get_opcodes(text, other)
             fmt == [tag \in {"delete", "insert", "replace"} |->
                       CASE tag = "delete" -> "deletion"
                         [] tag = "insert" -> "insertion"
                         [] tag = "replace" -> "modification"]
         IN  UNION { { <<p, fmt[ops[n][1]]>> : p \in ops[n][2] .. ops[n][3] - 1 } :
                     n \in { m \in 1 .. Len(ops) : ops[m][1] # "equal" } }

\* StringComparisonApp.update_highlighters(t1, t2) on editors that hold t1 and
\* t2: each highlighter gets the other editor's text and rehighlights
update_highlighters(t1, t2) ==
    IF len(t1) < max_text_size /\ len(t2) < max_text_size
      THEN <<highlightBlock(t1, t2), highlightBlock(t2, t1)>>
      ELSE formats

\* update_comparison, lines 446-449, after the worker was started on a, b
HighlightBlocks ==
    /\ app = "diff"
    /\ dpc = "worker"
    /\ formats' = update_highlighters(a, b)
    /\ dpc' = "highlighted"
    /\ UNCHANGED <<app, a, b, opcodes, appVars, tcVars>>

NextDiff == WorkerOpcodes \/ DisplayOpcodes \/ HighlightBlocks

\* ComparisonWorker.stop() is called on worker id while its thread runs
WorkerStopped(id) ==
    /\ app = "run"
    /\ isRunning(workers[id])
    /\ workers[id].is_running
    /\ workers' = [workers EXCEPT ![id] = stop(workers[id])]
    /\ UNCHANGED <<app, diffVars, tcVars, text1, text2, update_timer,
                   update_pending, is_processing, elapsed, comparison_worker,
                   events, status_label, diff_view, hist>>

NextRun ==
    \/ \E id \in WorkerIds : WorkerRuns(id)
    \/ \E id \in WorkerIds : WorkerStopped(id)

NextApp ==
    \/ \E t1 \in EditorTexts, t2 \in EditorTexts : TextChanged(t1, t2)
    \/ update_comparison
    \/ \E id \in WorkerIds : WorkerRuns(id)
    \/ update_diff_view
    \/ handle_comparison_error
    \/ update_progress
    \/ SignalDropped
    \/ Tick

NextTC ==
    \/ \E t1 \in TCTexts, t2 \in TCTexts : TCTextChanged(t1, t2)
    \/ TCTimeout
    \/ toggle_case_sensitivity
    \/ toggle_whitespace_sensitivity
    \/ TCTick

SpecDiff == InitDiff /\ [][NextDiff]_vars
SpecApp  == InitApp /\ [][NextApp]_vars
SpecTC   == InitTC /\ [][NextTC]_vars
SpecRun  == InitRun /\ [][NextRun]_vars
SpecLarge == InitLarge /\ [][NextApp]_vars

\* StringComparisonApp with a running clock and an event loop that delivers
\* the timeout of an armed timer that is due. update_comparison is enabled
\* exactly while the timer is due and every step of it leaves the timer off or
\* re-armed, so its weak fairness, WF_vars(update_comparison), is the
\* condition that the timer is not due for ever
SpecAppLive ==
    /\ InitApp
    /\ [][NextApp]_vars
    /\ WF_vars(Tick)
    /\ []<>~TimerDue(update_timer)
Spec     == (InitApp \/ InitTC) /\ [][NextApp \/ NextTC]_vars

---------------------------------------------------------------------------
(* Properties                                                              *)

\* the A-range (side = 2) or B-range (side = 4) of opcode op, cut out of s
RangeOf(op, s, side) == Slice(s, op[side], op[side + 1])

\* C1: the opcode list both programs iterate over tiles both texts: its
\* A-ranges start at 0, each starts where the one before ended, none runs
\* backwards and the last ends at len(a); the same holds for the B-ranges
\* over b; every opcode covers something; so the A-ranges put end to end are
\* a and the B-ranges put end to end are b.
OpcodesTileBothTexts ==
    dpc # "init" =>
      LET n == Len(opcodes)
      IN  /\ n = 0 => (a = <<>> /\ b = <<>>)
          /\ n > 0 => /\ opcodes[1][2] = 0
                      /\ opcodes[1][4] = 0
                      /\ opcodes[n][3] = Len(a)
                      /\ opcodes[n][5] = Len(b)
          /\ \A m \in 1 .. n :
               /\ opcodes[m][2] <= opcodes[m][3]
               /\ opcodes[m][4] <= opcodes[m][5]
               /\ opcodes[m][2] < opcodes[m][3] \/ opcodes[m][4] < opcodes[m][5]
          /\ \A m \in 1 .. n - 1 :
               /\ opcodes[m + 1][2] = opcodes[m][3]
               /\ opcodes[m + 1][4] = opcodes[m][5]
          /\ Flatten([m \in 1 .. n |-> RangeOf(opcodes[m], a, 2)]) = a
          /\ Flatten([m \in 1 .. n |-> RangeOf(opcodes[m], b, 4)]) = b

\* C1 happens: the worker got a list of three opcodes, one of them a replace
ThreeOpcodesWithReplace ==
    /\ dpc = "worker"
    /\ Len(opcodes) >= 3
    /\ \E m \in 1 .. Len(opcodes) : opcodes[m][1] = "replace"

\* C2: edits that arrive while the timer is armed share one pending request
\* and produce exactly one run.  In StringComparisonApp a request is pending
\* exactly while the timer is armed, every burst of accepted edits has had its
\* one run or has it pending, and once a run has started and no edit followed,
\* the texts it compared are the editors' contents; the same holds for
\* TextComparisonApp, whose pending request is its armed timer.
OneRunPerBurstOfEdits ==
    /\ app = "app" =>
         /\ update_timer.active <=> update_pending
         /\ hist.runs + (IF update_pending THEN 1 ELSE 0) = hist.bursts
         /\ (hist.runs > 0 /\ hist.burst = 0) => hist.compared = <<text1, text2>>
    /\ app = "app_2" =>
         /\ tc_hist.runs + (IF tc_timer.active THEN 1 ELSE 0) = tc_hist.bursts
         /\ (tc_hist.runs > 0 /\ tc_hist.burst = 0) =>
              tc_hist.compared = <<original_text, comparison_text>>

\* C2 happens: three edits arrived in one burst, one run followed and it
\* compared the two non-empty texts the editors hold
ThreeEditsOneRun ==
    /\ app = "app"
    /\ hist.edits = 3
    /\ hist.bursts = 1
    /\ hist.runs = 1
    /\ ~update_pending
    /\ text1 # <<>>
    /\ text2 # <<>>
    /\ hist.compared = <<text1, text2>>

\* C3: a comparison triggered by edits starts only when the full delay has
\* passed since the last edit: 750 ms in StringComparisonApp, 1000 ms in
\* TextComparisonApp.
RunStartsAfterQuietDelay ==
    /\ hist.runs > 0 => hist.quietAtRun >= debounce_delay
    /\ tc_hist.runs > 0 => tc_hist.quietAtRun >= tc_delay

\* C4: in StringComparisonApp a run start that follows another one comes at
\* least comparison_cooldown after it.
RunStartsCooldownApart ==
    hist.runs >= 2 => hist.gapAtRun >= comparison_cooldown

\* C4 happens: a second run has started and dispatched the second worker
SecondRunStarted ==
    /\ hist.runs >= 2
    /\ comparison_worker = 2

\* C5, as stated: the deferral re-arms the timer for what is left of the
\* cooldown.
DeferralRearmsForRemainder ==
    hist.rearmed => hist.rearmDelay = comparison_cooldown - hist.rearmAfter

\* C5: when the timer fires during the cooldown no run starts, the request
\* stays pending and the timer is re-armed for the whole comparison_cooldown,
\* counted from that firing.
DeferralRearmsForFullCooldown ==
    hist.rearmed =>
      /\ hist.rearmDelay = comparison_cooldown
      /\ update_pending
      /\ update_timer.active
      /\ update_timer.interval = comparison_cooldown

\* C5 happens: the timer fired part of the way through the cooldown and was
\* re-armed
DeferredDuringCooldown ==
    /\ hist.rearmed
    /\ hist.runs >= 1
    /\ hist.rearmAfter > 0
    /\ hist.rearmAfter < comparison_cooldown

\* C6: the change log of a worker that an edit superseded while it ran is
\* never displayed by update_diff_view.
SupersededNeverDisplayed ==
    hist.shown \cap hist.superseded = {}

CancelledNeverSurfaces ==
    hist.afterStop = {}

\* C9: at most one ComparisonWorker thread is running.
AtMostOneWorkerRunning ==
    Cardinality({ id \in WorkerIds : isRunning(workers[id]) }) <= 1

\* C9 happens: a worker that was running at the next dispatch has been stopped
\* and has ended, and its successor is running
StoppedThenSuccessorRuns ==
    \E old \in hist.cancelled :
      /\ ~isRunning(workers[old])
      /\ comparison_worker = old + 1
      /\ isRunning(workers[comparison_worker])

\* C10: results (finished or error) reach the display in dispatch order: a
\* result delivered after another one is of the same or a later worker.
ResultsInDispatchOrder ==
    \A m \in 1 .. Len(hist.results) : \A n \in 1 .. Len(hist.results) :
      m < n => hist.results[m] <= hist.results[n]

\* C10 happens: the results of two workers have been delivered
TwoWorkersDelivered ==
    /\ Len(hist.results) >= 2
    /\ hist.results[1] # hist.results[Len(hist.results)]

\* the pcs of run() after line 134, where the opcodes are known
AfterAnalysis == {"loop", "progress", "emit_progress", "flush", "summary",
                  "final", "emit_finished"}

\* the entries run() appends for the first n opcodes of a worker on t1, t2,
\* under the display cap
RECURSIVE EntriesOf(_, _, _)
EntriesOf(t1, t2, n) ==
    IF n = 0 THEN <<>>
    ELSE LET ops == get_opcodes(t1, t2)
         IN  EntriesOf(t1, t2, n - 1) \o
             (IF ops[n][1] = "equal" THEN <<>>
              ELSE << Entry(NewWorker(t1, t2), ops[n]) >>)

\* C11: a running comparison works on the two texts the editors held when its
\* worker was dispatched, whatever the editors hold since: the current
\* worker's texts are that snapshot, and once it has its opcodes they are the
\* opcodes of the snapshot, its count is the number of non-equal ones and the
\* entries it has collected are the entries of the snapshot's opcodes passed
\* so far.
WorkerReadsItsSnapshot ==
    comparison_worker # 0 =>
      LET w   == workers[comparison_worker]
          t1  == hist.snapshot[1]
          t2  == hist.snapshot[2]
          ops == get_opcodes(t1, t2)
      IN  /\ w.text1 = t1
          /\ w.text2 = t2
          /\ w.pc \in AfterAnalysis =>
               /\ w.opcodes = ops
               /\ w.total_diffs =
                    Cardinality({ n \in 1 .. Len(ops) : ops[n][1] # "equal" })
               /\ w.pc = "loop" =>
                    w.diff_content \o w.batch_content = EntriesOf(t1, t2, w.k - 1)
               /\ w.pc \in {"progress", "emit_progress", "flush"} =>
                    w.diff_content \o w.batch_content = EntriesOf(t1, t2, w.k)

\* C11 happens: an editor was changed after the dispatch, while the worker
\* ran, and the worker has gone through the opcodes of its snapshot
EditedWhileWorkerCompares ==
    /\ comparison_worker \in hist.superseded
    /\ workers[comparison_worker].pc = "flush"
    /\ workers[comparison_worker].total_diffs > 0
    /\ hist.snapshot # <<text1, text2>>

\* C12: the status update_diff_view sets with a worker's change log and count
\* is the status of the two texts that worker compared.
StatusIsOfTheComparedTexts ==
    hist.shown # {} =>
      hist.display.status =
        DiffStatus(hist.display.count, hist.display.texts[1], hist.display.texts[2])

\* C13: a worker is stopped through its cancellation flag alone: no worker
\* thread is ever terminated.
NoWorkerTerminated ==
    \A id \in WorkerIds : workers[id].pc # "terminated"


\* the first field of the entries run() appends for a non-equal opcode
FullEntryHeads == {"Missing in second text", "Added in second text", "Text changed"}

\* C14: a run that completes on texts with T non-equal opcodes delivers T as
\* its count and a log with min(T, max_display_diffs) full entries, the entries
\* of the first non-equal opcodes in opcode order; when T exceeds the cap, and
\* only then, the log has one "more differences not shown" entry, for
\* T - max_display_diffs, after every full entry; and when T > 0 the summary
\* reports T differences found and min(T, max_display_diffs) shown.
LogTruncatedAtDisplayCap ==
    \A n \in 1 .. Len(events) :
      events[n].signal[1] = "finished" =>
        LET log   == events[n].signal[2]
            t1    == events[n].texts[1]
            t2    == events[n].texts[2]
            diffs == SelectSeq(get_opcodes(t1, t2), LAMBDA op : op[1] # "equal")
            T     == Len(diffs)
            shown == Min(T, max_display_diffs)
            fulls == { m \in 1 .. Len(log) : log[m][1] \in FullEntryHeads }
            full  == SelectSeq(log, LAMBDA l : l[1] \in FullEntryHeads)
            mores == { m \in 1 .. Len(log) : log[m][1] = "more differences not shown" }
        IN  /\ events[n].signal[3] = T
            /\ Len(full) = shown
            /\ \A m \in 1 .. shown : full[m] = Entry(NewWorker(t1, t2), diffs[m])
            /\ IF T > max_display_diffs
                 THEN \E m \in mores :
                        /\ mores = {m}
                        /\ log[m] = <<"more differences not shown", T - max_display_diffs>>
                        /\ \A f \in fulls : f < m
                 ELSE mores = {}
            /\ T > 0 =>
                 /\ \E m \in 1 .. Len(log) : log[m] = <<"Total differences found", T>>
                 /\ \E m \in 1 .. Len(log) : log[m] = <<"Differences shown", shown>>

\* C14 witness: a run delivered a count above the cap, with the entry for the
\* differences left out
RunAboveDisplayCap ==
    \E n \in 1 .. Len(events) :
      /\ events[n].signal[1] = "finished"
      /\ events[n].signal[3] > max_display_diffs
      /\ \E m \in 1 .. Len(events[n].signal[2]) :
           events[n].signal[2][m][1] = "more differences not shown"


\* p is the preview, under cap, of the affected text
Shows(p, text, cap) ==
    /\ Len(p) <= cap
    /\ IF Len(text) > cap
         THEN p = SubSeq(text, 1, cap - 3) \o <<".", ".", ".">>
         ELSE p = text

\* C15: in every delivered log the preview of a deleted or inserted text has
\* at most 100 characters and each side of a replacement at most 50: a longer
\* text is shown as its first cap - 3 characters followed by "...", any other
\* text as it is.
PreviewsWithinTheirCaps ==
    \A n \in 1 .. Len(events) :
      events[n].signal[1] = "finished" =>
        LET t1    == events[n].texts[1]
            t2    == events[n].texts[2]
            diffs == SelectSeq(get_opcodes(t1, t2), LAMBDA op : op[1] # "equal")
            full  == SelectSeq(events[n].signal[2], LAMBDA l : l[1] \in FullEntryHeads)
        IN  \A m \in 1 .. Min(Len(full), Len(diffs)) :
              LET gone == RangeOf(diffs[m], t1, 2)
                  come == RangeOf(diffs[m], t2, 4)
              IN  CASE diffs[m][1] = "delete" ->
                         /\ full[m][1] = "Missing in second text"
                         /\ Shows(full[m][2], gone, 100)
                    [] diffs[m][1] = "insert" ->
                         /\ full[m][1] = "Added in second text"
                         /\ Shows(full[m][2], come, 100)
                    [] OTHER ->
                         /\ full[m][1] = "Text changed"
                         /\ Shows(full[m][2], gone, 50)
                         /\ Shows(full[m][3], come, 50)

\* C15 witness: a delivered log shows a replacement of 51 characters by 101,
\* both sides cut
BothSidesCut ==
    \E n \in 1 .. Len(events) :
      /\ events[n].signal[1] = "finished"
      /\ Len(events[n].texts[1]) = 53
      /\ Len(events[n].texts[2]) = 103
      /\ \E m \in 1 .. Len(events[n].signal[2]) :
           /\ events[n].signal[2][m][1] = "Text changed"
           /\ SubSeq(events[n].signal[2][m][2], 48, 50) = <<".", ".", ".">>
           /\ SubSeq(events[n].signal[2][m][3], 48, 50) = <<".", ".", ".">>


\* a text of the last dispatch is longer than the worker's limit
AboveCeiling ==
    \/ len(hist.snapshot[1]) > max_text_length
    \/ len(hist.snapshot[2]) > max_text_length

\* C16 (as claimed): when a text handed to a comparison is longer than
\* max_text_length, the worker of that comparison never gets to the alignment:
\* it has no opcodes and is at no point of run() after get_opcodes().
NoAlignmentAboveCeiling ==
    (comparison_worker # 0 /\ AboveCeiling) =>
      /\ workers[comparison_worker].pc \notin AfterAnalysis
      /\ workers[comparison_worker].opcodes = <<>>

\* what the program can tell the user about the size of the texts
SizeNotices == {"Text too large for real-time highlighting"}

\* C17 (as claimed): while the display shows the result of the last
\* comparison, and that comparison was of texts cut to max_text_length, the
\* status or the log tells the user about it.
TruncatedResultIsFlagged ==
    ( /\ comparison_worker # 0
      /\ Len(hist.results) > 0
      /\ hist.results[Len(hist.results)] = comparison_worker
      /\ comparison_worker \in hist.shown
      /\ status_label = hist.display.status
      /\ AboveCeiling ) =>
      \/ status_label[1] \in SizeNotices
      \/ \E m \in 1 .. Len(diff_view) : diff_view[m][1] \in SizeNotices


\* run() finds the estimate of the similarity of t1 and t2 below the floor
LowEstimate(t1, t2) ==
    /\ t1 # <<>> \/ t2 # <<>>
    /\ BelowFloor(real_quick_ratio(t1, t2))

\* C18 (as claimed): a worker whose texts have an estimate below the floor
\* never gets to matcher.ratio() or to the opcodes, and sends no error signal.
DissimilarSkipsAlignmentAndErrorPath ==
    /\ \A id \in WorkerIds :
         LowEstimate(workers[id].text1, workers[id].text2) =>
           workers[id].pc \notin AfterAnalysis \cup {"ratio"}
    /\ \A n \in 1 .. Len(events) :
         LowEstimate(events[n].texts[1], events[n].texts[2]) =>
           events[n].signal[1] # "error"


\* the error signal of a fault of the worker is at the head of the queue and
\* this step hands it to handle_comparison_error
FaultHandled ==
    /\ events # <<>>
    /\ Head(events).signal = <<"error", "Comparison error">>
    /\ events' = Tail(events)
    /\ status_label' = <<"error", "Comparison error">>

\* C19 (as claimed): the step that handles the fault of a worker, while the
\* log of an earlier comparison is displayed, shows the fault in the status,
\* leaves is_processing false and leaves the displayed log as it was.
FaultKeepsDisplayedLog ==
    [][(FaultHandled /\ \E m \in 1 .. Len(diff_view) : diff_view[m][1] \in FullEntryHeads) =>
         /\ ~is_processing'
         /\ diff_view' = diff_view]_vars


\* C20 (as claimed): once a comparison was triggered with both editors empty,
\* and as long as no edit follows, the program shows the status of empty texts
\* and no change entry (app.py), or the cleared panes (app_2.py), whatever an
\* earlier comparison displayed or is still computing.
EmptyRunShowsNothing ==
    /\ ( /\ app = "app"
         /\ hist.runs > 0
         /\ hist.burst = 0
         /\ hist.compared = << <<>>, <<>> >> ) =>
         /\ status_label = <<"Enter text to compare">>
         /\ \A m \in 1 .. Len(diff_view) : diff_view[m][1] \notin FullEntryHeads
    /\ ( /\ app = "app_2"
         /\ tc_hist.runs > 0
         /\ tc_hist.burst = 0
         /\ tc_hist.compared = << <<>>, <<>> >> ) =>
         tc_view = ClearedView


\* exactly one of the two texts is empty
OneEmpty(t1, t2) == (t1 = <<>>) # (t2 = <<>>)

\* C21 (as claimed): every signal of a worker that compares an empty text with
\* a non-empty one, a fault of the matcher apart, is a finished signal with
\* the count 1 and a log whose only entry is the insertion (first text empty)
\* or the deletion (second text empty) of the whole other text.
OneEmptyTextYieldsOneEntry ==
    \A n \in 1 .. Len(events) :
      ( /\ OneEmpty(events[n].texts[1], events[n].texts[2])
        /\ events[n].signal # <<"error", "Comparison error">> ) =>
        /\ events[n].signal[1] = "finished"
        /\ events[n].signal[3] = 1
        /\ LET t1   == events[n].texts[1]
               t2   == events[n].texts[2]
               full == SelectSeq(events[n].signal[2],
                                 LAMBDA l : l[1] \in FullEntryHeads)
           IN  /\ Len(full) = 1
               /\ full[1][1] = IF t1 = <<>> THEN "Added in second text"
                               ELSE "Missing in second text"
               /\ full[1][2] = IF t1 = <<>> THEN t2 ELSE t1


\* the two texts are the same non-empty text
Identical(t1, t2) == t1 = t2 /\ t1 # <<>>

\* this step is update_diff_view displaying the result at the head of the queue
ResultDisplayed ==
    /\ events # <<>>
    /\ Head(events).signal[1] = "finished"
    /\ events' = Tail(events)
    /\ Len(hist'.results) = Len(hist.results) + 1

\* C22: a worker on two identical non-empty texts has, once it has its
\* opcodes, the one opcode "equal" over both texts; every finished signal of
\* such a worker carries the count 0 and an empty log; and when its result is
\* displayed while the editors still hold these texts, the display is the
\* empty log with the status "Texts are identical".
IdenticalTextsOneEqualOpcode ==
    /\ [](\A id \in WorkerIds :
            ( /\ workers[id].pc \in AfterAnalysis
              /\ Identical(workers[id].text1, workers[id].text2) ) =>
              workers[id].opcodes =
                << <<"equal", 0, Len(workers[id].text1), 0, Len(workers[id].text2)>> >>)
    /\ [](\A n \in 1 .. Len(events) :
            ( /\ events[n].signal[1] = "finished"
              /\ Identical(events[n].texts[1], events[n].texts[2]) ) =>
              /\ events[n].signal[2] = <<>>
              /\ events[n].signal[3] = 0)
    /\ [][( /\ ResultDisplayed
            /\ Head(events).texts = <<text1, text2>>
            /\ Identical(text1, text2) ) =>
            /\ diff_view' = <<>>
            /\ status_label' = <<"Texts are identical">>]_vars

\* C22 witness: the result of a comparison of two identical non-empty texts is
\* on display, the editors still holding them
IdenticalResultDisplayed ==
    /\ hist.shown # {}
    /\ hist.display.texts = <<text1, text2>>
    /\ Identical(text1, text2)
    /\ hist.display.count = 0
    /\ status_label = <<"Texts are identical">>
    /\ diff_view = <<>>


\* the characters of a text
CharsOf(t) == { t[n] : n \in 1 .. Len(t) }

\* the two non-empty texts have no character in common
Disjoint(t1, t2) == t1 # <<>> /\ t2 # <<>> /\ CharsOf(t1) \cap CharsOf(t2) = {}

\* the fraction q is the similarity a program reports for the compared texts
\* t1, t2: 1 when they are equal, 0 when they share no character
AtExtremes(q, t1, t2) ==
    /\ t1 = t2 => q[1] = q[2]
    /\ Disjoint(t1, t2) => q[1] = 0

\* C23 (as claimed): the similarity TextComparisonApp shows after a comparison
\* of the texts its editors hold, and every "Overall similarity" in a log of a
\* ComparisonWorker, is 100% for equal texts, the empty text included, and 0%
\* for texts without a common character.
SimilarityAtExtremes ==
    /\ ( /\ app = "app_2"
         /\ tc_hist.runs > 0
         /\ tc_hist.burst = 0 ) =>
         AtExtremes(tc_view.similarity,
                    comp_text(original_text, case_sensitive, ignore_whitespace),
                    comp_text(comparison_text, case_sensitive, ignore_whitespace))
    /\ \A n \in 1 .. Len(events) :
         events[n].signal[1] = "finished" =>
           \A m \in 1 .. Len(events[n].signal[2]) :
             events[n].signal[2][m][1] = "Overall similarity" =>
               AtExtremes(events[n].signal[2][m][2],
                          events[n].texts[1], events[n].texts[2])


\* the fraction q is at least the fraction r
AtLeast(q, r) == q[1] * r[2] >= r[1] * q[2]

\* C24 (as claimed): when the result of the worker dispatched on the editors'
\* present texts is displayed, the similarity in the status, a quick ratio, is
\* at least the "Overall similarity" of the log, the exact ratio.
QuickRatioBoundsRatio ==
    [][( /\ ResultDisplayed
         /\ Head(events).w = comparison_worker
         /\ hist.snapshot = <<text1, text2>> ) =>
         \A m \in 1 .. Len(diff_view') :
           diff_view'[m][1] = "Overall similarity" =>
             /\ status_label'[1] = "Found differences"
             /\ Len(status_label'[4]) = 2
             /\ AtLeast(status_label'[4][2], diff_view'[m][2])]_vars


\* the total length of the "equal" spans of a list of opcodes
EqualLength(ops) ==
    SumSeq([n \in 1 .. Len(ops) |->
              IF ops[n][1] = "equal" THEN ops[n][3] - ops[n][2] ELSE 0])

\* the opcodes the programs have for "kitten" and "sitting"
KittenSitting == a = Kitten /\ b = Sitting /\ dpc # "init"

\* C25 (as claimed): for "kitten" and "sitting" the equal spans of the opcodes
\* have 5 characters in all and the ratio is 10/13.
KittenSittingFiveMatched ==
    KittenSitting =>
      /\ EqualLength(opcodes) = 5
      /\ ratio(a, b)[1] * 13 = 10 * ratio(a, b)[2]

\* C25 (amended): for "kitten" and "sitting" the opcodes are replace k by s,
\* equal "itt", replace e by i, equal "n", insert g: they tile both words, the
\* equal spans have 4 characters in all and the ratio is 2 * 4 / (6 + 7) = 8/13.
KittenSittingFourMatched ==
    KittenSitting =>
      /\ opcodes = << <<"replace", 0, 1, 0, 1>>, <<"equal", 1, 4, 1, 4>>,
                      <<"replace", 4, 5, 4, 5>>, <<"equal", 5, 6, 5, 6>>,
                      <<"insert", 6, 6, 6, 7>> >>
      /\ Flatten([n \in 1 .. Len(opcodes) |-> RangeOf(opcodes[n], a, 2)]) = a
      /\ Flatten([n \in 1 .. Len(opcodes) |-> RangeOf(opcodes[n], b, 4)]) = b
      /\ EqualLength(opcodes) = 4
      /\ Matches(a, b) = EqualLength(opcodes)
      /\ ratio(a, b)[1] * 13 = 8 * ratio(a, b)[2]

\* C25 witness: the opcodes of "kitten" and "sitting" have been computed
KittenSittingAligned == KittenSitting /\ Len(opcodes) = 5


\* the change log of a run of the worker on t1, t2 that nothing interrupts:
\* the header of a long log, the entries of the first max_display_diffs
\* non-equal opcodes, the entry for those left out, and the summary
CompleteLog(t1, t2) ==
    LET w0    == NewWorker(t1, t2)
        diffs == SelectSeq(get_opcodes(w0.text1, w0.text2), LAMBDA op : op[1] # "equal")
        T     == Len(diffs)
        shown == Min(T, max_display_diffs)
    IN  (IF T > max_display_diffs
           THEN << <<"Found differences, showing first", T, max_display_diffs>>,
                   <<"==================================================">> >>
           ELSE <<>>)
        \o [m \in 1 .. shown |-> Entry(w0, diffs[m])]
        \o (IF T > max_display_diffs
              THEN << <<"more differences not shown", T - max_display_diffs>> >>
              ELSE <<>>)
        \o (IF T > 0
              THEN Summary([w0 EXCEPT !.total_diffs = T,
                                      !.diff_count = Min(T, max_display_diffs + 1)])
              ELSE <<>>)

\* the number of finished signals of worker id in the queue q
FinishedFrom(id, q) ==
    Cardinality({ n \in 1 .. Len(q) : q[n].w = id /\ q[n].signal[1] = "finished" })

\* worker id has not passed the check of line 243
BeforeFinalCheck(id) == workers[id].pc \notin {"emit_finished", "done", "none", "terminated"}

\* C26: a worker never publishes a partial result. Every finished signal
\* carries the complete change log of the worker's texts (every full entry up
\* to the display cap, the omitted-count entry above the cap, the summary when
\* there is a difference); the cancellation flag is never set again once
\* cleared; and a run whose flag is cleared before its final check emits no
\* finished signal.
NoPartialResult ==
    /\ [](\A n \in 1 .. Len(events) :
            events[n].signal[1] = "finished" =>
              events[n].signal[2] = CompleteLog(events[n].texts[1], events[n].texts[2]))
    /\ [][\A id \in WorkerIds :
            /\ ~workers[id].is_running => ~workers'[id].is_running
            /\ (BeforeFinalCheck(id) /\ ~workers'[id].is_running) =>
                  /\ workers'[id].pc # "emit_finished"
                  /\ FinishedFrom(id, events') <= FinishedFrom(id, events)]_vars

\* C26 witness: a run above the display cap was stopped after its loop had
\* collected entries and before its final check, and ended without a signal
StoppedRunPublishesNothing ==
    \E id \in WorkerIds :
      /\ workers[id].pc = "done"
      /\ ~workers[id].is_running
      /\ workers[id].total_diffs > max_display_diffs
      /\ workers[id].diff_content \o workers[id].batch_content # <<>>
      /\ FinishedFrom(id, events) = 0


\* the positions of the ranges of side (2: first text, 4: second text) of the
\* opcodes with a tag of tags
RangesOf(ops, tags, side) ==
    UNION { ops[n][side] .. ops[n][side + 1] - 1 :
            n \in { m \in 1 .. Len(ops) : ops[m][1] \in tags } }

\* the positions a highlighter has formatted
Formatted(editor) == { f[1] : f \in formats[editor] }

\* C27: the characters highlighted in the right-hand editor are those of the
\* ranges in the second text of the worker's insert and replace opcodes, and
\* the characters highlighted in the left-hand editor those of the ranges in
\* the first text of its delete and replace opcodes.
HighlightsFollowWorkerOpcodes ==
    dpc = "highlighted" =>
      /\ Formatted(1) = RangesOf(opcodes, {"delete", "replace"}, 2)
      /\ Formatted(2) = RangesOf(opcodes, {"insert", "replace"}, 4)


\* the spans of a pane cover each position of the text shown in it once, and
\* none reaches past its end
Partition(spans, text) ==
    /\ \A n \in 1 .. Len(spans) : 0 <= spans[n][2] /\ spans[n][3] <= Len(text)
    /\ \A p \in 0 .. Len(text) - 1 :
         Cardinality({ n \in 1 .. Len(spans) : spans[n][2] <= p /\ p < spans[n][3] }) = 1

\* the "match" spans of a pane, in order
MatchSpans(spans) == SelectSeq(spans, LAMBDA sp : sp[1] = "match")

\* the two panes' match spans cover texts that are equal once normalised
MatchesAgree(view, cs, iw) ==
    LET m1 == MatchSpans(view.spans1)
        m2 == MatchSpans(view.spans2)
    IN  /\ Len(m1) = Len(m2)
        /\ \A n \in 1 .. Len(m1) :
             comp_text(Slice(view.original, m1[n][2], m1[n][3]), cs, iw)
               = comp_text(Slice(view.comparison, m2[n][2], m2[n][3]), cs, iw)

\* C28: under every combination of the two settings the spans of
\* update_diff_display partition the two displayed texts (each position in
\* exactly one span, none past the end) and each match span covers parts of
\* the two displayed texts that are equal under the active normalisation.
SpansPartitionDisplayedTexts ==
    /\ Partition(tc_view.spans1, tc_view.original)
    /\ Partition(tc_view.spans2, tc_view.comparison)
    /\ MatchesAgree(tc_view, case_sensitive, ignore_whitespace)


\* update_comparison has passed the cooldown check and read the editors, and
\* no edit was accepted since
RunReadLatestEdit ==
    /\ ~update_pending
    /\ hist.runs > 0
    /\ hist.burst = 0
    /\ hist.compared = <<text1, text2>>

\* C29: no edit is lost. Whenever update_pending is set the single-shot timer
\* is armed, and with a running clock and timeouts that are delivered every
\* accepted edit is followed by a run start that reads the editors' contents
\* as they are after that edit.
NoEditLost ==
    /\ [](update_pending => update_timer.active)
    /\ (update_pending ~> RunReadLatestEdit)

\* C29 witness: a second run has started, for an edit accepted after the
\* first, and has read the editors as that edit left them
LaterEditServed ==
    /\ hist.runs >= 2
    /\ hist.edits >= 2
    /\ RunReadLatestEdit


\* the number of terminal signals (finished or error) of worker id in the
\* queue q
TerminalFrom(id, q) ==
    Cardinality({ n \in 1 .. Len(q) :
                    q[n].w = id /\ q[n].signal[1] \in {"finished", "error"} })

\* C30: an execution of run() emits at most one terminal signal, finished or
\* error: a terminal signal is emitted only by a run that ends with it, one at
\* a time, and a run that has ended does not start again or emit anything.
OneTerminalSignalPerRun ==
    [][\A id \in WorkerIds :
         /\ TerminalFrom(id, events') > TerminalFrom(id, events) =>
              /\ TerminalFrom(id, events') = TerminalFrom(id, events) + 1
              /\ isRunning(workers[id])
              /\ ~isRunning(workers'[id])
         /\ (workers[id].pc # "none" /\ ~isRunning(workers[id])) =>
              /\ ~isRunning(workers'[id])
              /\ TerminalFrom(id, events') <= TerminalFrom(id, events)]_vars

\* C30 witness: a run has ended after a progress signal and one finished
\* signal, all still queued
RunEndedWithOneSignal ==
    \E id \in WorkerIds :
      /\ workers[id].pc = "done"
      /\ TerminalFrom(id, events) = 1
      /\ FinishedFrom(id, events) = 1
      /\ \E n \in 1 .. Len(events) : events[n].w = id /\ events[n].signal[1] = "progress"


\* a step in which the user changes an editor
Edits == text1' # text1 \/ text2' # text2

====
